---- MODULE Spec2Model ----
(***************************************************************************)
(* The connection loops of may_minihttp (src/src/http_server.rs):          *)
(* HttpServer::start (sequential mode) and HttpPipelineServer::start       *)
(* (pipelined mode, responses ordered by a sequencer::Seq).                *)
(*                                                                         *)
(* One state holds the server's mode and, per connection, the main loop's  *)
(* position, its read accumulator, the spawned handler tasks, the          *)
(* sequencer and the bytes that reached the socket.                        *)
(***************************************************************************)
EXTENDS Integers, Sequences, FiniteSets, TLC

\* ------------------------------------------------------------------ bounds
MaxConns == 2
MaxStream == 3
MaxStreamFair == 2
MaxAcceptErrs == 1
MaxCapTail == 2

\* ------------------------------------------------------- program constants
SeqBufCap == 512
SeqLowWater == 256
SeqReserve == 512
PipeBufCap == 4096
PipeLowWater == 1024
PipeReserve == 4096
StatusOk == 200
StatusInternalError == 500

Conns == 1..MaxConns

\* The peer's bytes: "a" is a byte of a request, "$" ends a request frame,
\* "!" is a byte no request may contain.
Byte == {"a", "$", "!"}
StreamsUpTo(n) == UNION {[1..k -> Byte] : k \in 0..n}

\* Descriptions a failing handler may carry (io::Error::description()): the
\* one text the method returns for every error, whatever request failed.
ErrDescs(req) == {<<"description() is deprecated; use Display">>}

\* io::ErrorKind of a failed read or write.
IoKinds == {"ConnectionReset", "UnexpectedEof", "Other"}

NoRsp == [status |-> 0, body |-> <<>>]

Min(a, b) == IF a < b THEN a ELSE b
Max(a, b) == IF a > b THEN a ELSE b

\* Index of the first "$" or "!" of b at or after i, 0 when there is none.
FirstMark(b, i) ==
    LET marks == {k \in i..Len(b) : b[k] \in {"$", "!"}} IN
    IF marks = {} THEN 0
    ELSE CHOOSE k \in marks : \A j \in marks : k <= j

\* request::decode: Err on a malformed frame, None while the frame is
\* incomplete, Some(req) with the frame's length once it is complete.
decode(b) ==
    LET i == FirstMark(b, 1) IN
    IF i = 0 THEN [kind |-> "None"]
    ELSE IF b[i] = "!" THEN [kind |-> "Err", err |-> "Other"]
    ELSE [kind |-> "Some", req |-> SubSeq(b, 1, i - 1), amt |-> i]

\* BytesMut::split_to(amt) as decode applies it: the frame leaves the buffer.
split_to(b, amt) == SubSeq(b, amt + 1, Len(b))

StatusByte(s) == IF s = StatusOk THEN "2" ELSE "5"

\* response::encode(msg, buf): appends the status line, the body and the
\* end of the response to buf.
encode(msg, b) == b \o <<StatusByte(msg.status)>> \o msg.body \o <<".">>

\* HttpService::call: the user's handler answers the request or fails.
call(req) ==
    {[ok |-> TRUE, rsp |-> [status |-> StatusOk, body |-> req], err |-> <<>>]}
    \cup {[ok |-> FALSE, rsp |-> NoRsp, err |-> d] : d \in ErrDescs(req)}

\* The failure's description left out of the response.
internal_error_rsp_no_body(e) == [status |-> StatusInternalError, body |-> <<>>]

\* internal_error_rsp: the response that stands for a failed handler.
internal_error_rsp(e) == [status |-> StatusInternalError, body |-> e]

\* unwrap_or_else(internal_error_rsp)
unwrap_or_else(r) == IF r.ok THEN r.rsp ELSE internal_error_rsp(r.err)

\* t!: which errors are logged at error level before the return.
t_logs(kind) == kind \notin {"ConnectionReset", "UnexpectedEof"}

VARIABLES
    mode,      \* "seq" (HttpServer) or "pipe" (HttpPipelineServer)
    listener,  \* "running" or "cancelled"
    accepts,   \* the accept loop's iterations so far: "ok", "accept_err", "clone_err"
    pc,        \* per connection: the main loop's position
    why,       \* per connection: why the main loop returned
    buf,       \* per connection: the read accumulator's bytes
    cap,       \* per connection: the accumulator's capacity
    stream,    \* per connection: all the bytes the peer sends before it closes
    input,     \* per connection: bytes the peer has sent and the loop has not read
    reqs,      \* per connection: requests decoded, in decode order
    rets,      \* per connection: response produced for each request (NoRsp: none yet)
    calls,     \* per connection: the handler's calls in call order (request index, result)
    rsp,       \* per connection: sequential mode's response buffer
    off,       \* per connection: sequential mode's bytes of rsp already written
    tasks,     \* per connection: pipelined mode's spawned tasks, in spawn order
    seqNext,   \* per connection: next ticket Seq::next hands out
    turn,      \* per connection: ticket the sequencer admits
    wire,      \* per connection: bytes written to the socket
    errlog     \* per connection: call sites that logged at error level

vars == <<mode, listener, accepts, pc, why, buf, cap, stream, input, reqs, rets, calls, rsp, off,
          tasks, seqNext, turn, wire, errlog>>


\* ------------------------------------------------------------ the sequencer
\* Seq::next: the ticket handed out and the counter after it.
next(n) == [ticket |-> n, counter |-> n + 1]

\* SeqGuard's lock: the holder of ticket k is admitted when it is k's turn.
lock(t, k) == t = k

\* A guard whose drop does not pass the turn on.
releaseStuck(t) == t

\* Dropping the guard: the next ticket becomes eligible.
release(t) == t + 1

\* --------------------------------------------------------- the accumulator
remaining_mut(c) == cap[c] - Len(buf[c])

RECURSIVE FrameBytes(_, _)
\* The bytes that the requests after the j-th took off the accumulator
\* when they were decoded (each frame is its request and the end mark).
FrameBytes(rs, j) ==
    IF j >= Len(rs) THEN 0
    ELSE Len(rs[Len(rs)]) + 1 + FrameBytes(SubSeq(rs, 1, Len(rs) - 1), j)

\* Where the accumulator of connection c may start in its allocation: the
\* allocation was made afresh (or the bytes moved to its start) after some
\* number of requests, and every request decoded since moved the start on by
\* its frame.
Offsets(c) == {FrameBytes(reqs[c], j) : j \in 0..Len(reqs[c])}

\* BytesMut::reserve(additional): nothing when `additional` bytes can
\* already be written. Otherwise the new capacity depends on the allocation
\* behind the buffer, which starts o bytes before it:
\*  - the allocation is grown to twice its size, or to what holds the o
\*    bytes, the buffer and `additional` more when that is larger;
\*  - the buffer is moved to the start of the allocation when the whole of
\*    it is enough;
\*  - a new allocation of the least size is made (a request split off this
\*    one is still held somewhere).
\* The least admissible capacity is always a possible outcome.
reserve(c, additional) ==
    IF remaining_mut(c) >= additional THEN {cap[c]}
    ELSE LET least == Len(buf[c]) + additional
         IN  {least}
             \cup {Max(2 * (cap[c] + o), least + o) - o : o \in Offsets(c)}
             \cup {cap[c] + o : o \in {x \in Offsets(c) : cap[c] + x >= least}}

\* No growth whatever the room left.
EnsureRoomNever(c, low, additional) == {cap[c]}

\* `if buf.remaining_mut() < low { buf.reserve(additional); }`: the
\* capacities the accumulator may have when the read is issued.
EnsureRoom(c, low, additional) ==
    IF remaining_mut(c) < low THEN reserve(c, additional) ELSE {cap[c]}

\* -------------------------------------------------------------- initial state
\* The state of connection c right after the accept loop spawned its loop,
\* the peer having s to send before it closes.
Accepted(s) ==
    /\ accepts = <<"ok">>
    /\ pc = [c \in Conns |-> IF c = 1 THEN "decode" ELSE "none"]
    /\ why = [c \in Conns |-> "open"]
    /\ buf = [c \in Conns |-> <<>>]
    /\ cap = [c \in Conns |-> IF c # 1 THEN 0
                              ELSE IF mode = "seq" THEN SeqBufCap ELSE PipeBufCap]
    /\ stream = [c \in Conns |-> IF c = 1 THEN s ELSE <<>>]
    /\ input = stream
    /\ reqs = [c \in Conns |-> <<>>]
    /\ rets = [c \in Conns |-> <<>>]
    /\ calls = [c \in Conns |-> <<>>]
    /\ rsp = [c \in Conns |-> <<>>]
    /\ off = [c \in Conns |-> 0]
    /\ tasks = [c \in Conns |-> <<>>]
    /\ seqNext = [c \in Conns |-> 0]
    /\ turn = [c \in Conns |-> 0]
    /\ wire = [c \in Conns |-> <<>>]
    /\ errlog = [c \in Conns |-> {}]

Init ==
    /\ mode \in {"seq", "pipe"}
    /\ listener = "running"
    /\ \E s \in StreamsUpTo(MaxStream) : Accepted(s)

\* ------------------------------------------------------------ the main loops
\* The failure of one connection taking down every connection's loop.
ReturnAbort(c, reason, site, kind) ==
    /\ pc' = [d \in Conns |-> IF pc[d] = "none" THEN "none" ELSE "closed"]
    /\ why' = [why EXCEPT ![c] = reason]
    /\ errlog' = [errlog EXCEPT ![c] = IF t_logs(kind) THEN @ \cup {site} ELSE @]

\* `return` out of the connection loop, through t! (site, kind) or directly.
Return(c, reason, site, kind) ==
    /\ pc' = [pc EXCEPT ![c] = "closed"]
    /\ why' = [why EXCEPT ![c] = reason]
    /\ errlog' = [errlog EXCEPT ![c] = IF t_logs(kind) THEN @ \cup {site} ELSE @]

\* The zero-byte read taken for a failure and logged.
ReturnClosedLogged(c) ==
    /\ pc' = [pc EXCEPT ![c] = "closed"]
    /\ why' = [why EXCEPT ![c] = "eof"]
    /\ errlog' = [errlog EXCEPT ![c] = @ \cup {"read"}]

\* The plain `return` after a zero-byte read.
ReturnClosed(c) ==
    /\ pc' = [pc EXCEPT ![c] = "closed"]
    /\ why' = [why EXCEPT ![c] = "eof"]
    /\ UNCHANGED errlog

\* The bytes read put at the start of the accumulator, over what it held.
ReadOverwrite(c) ==
    /\ pc[c] = "read"
    /\ LET room == remaining_mut(c)
       IN
       \/ \E n \in 1..Min(Len(input[c]), room) :
            /\ buf' = [buf EXCEPT ![c] = SubSeq(input[c], 1, n)]
            /\ input' = [input EXCEPT ![c] = SubSeq(@, n + 1, Len(@))]
            /\ pc' = [pc EXCEPT ![c] = "decode"]
            /\ UNCHANGED <<why, errlog>>
       \/ /\ Min(Len(input[c]), room) = 0
          /\ ReturnClosed(c)
          /\ UNCHANGED <<buf, input>>
       \/ \E k \in IoKinds :
            /\ Return(c, "read_err", "read", k)
            /\ UNCHANGED <<buf, input>>
    /\ UNCHANGED <<mode, listener, accepts, stream, cap, reqs, rets, calls, rsp, off, tasks,
                   seqNext, turn, wire>>

\* The None arm of the loop from `stream.read(read_buf)` on: one read into
\* the room the accumulator has, return on a failed or zero-byte read, else
\* take the bytes in.
Read(c) ==
    /\ pc[c] = "read"
    /\ LET room == remaining_mut(c)
       IN
       \/ \E n \in 1..Min(Len(input[c]), room) :
            /\ buf' = [buf EXCEPT ![c] = @ \o SubSeq(input[c], 1, n)]
            /\ input' = [input EXCEPT ![c] = SubSeq(@, n + 1, Len(@))]
            /\ pc' = [pc EXCEPT ![c] = "decode"]
            /\ UNCHANGED <<why, errlog>>
       \/ /\ Min(Len(input[c]), room) = 0
          /\ ReturnClosed(c)
          /\ UNCHANGED <<buf, input>>
       \/ \E k \in IoKinds :
            /\ Return(c, "read_err", "read", k)
            /\ UNCHANGED <<buf, input>>
    /\ UNCHANGED <<mode, listener, accepts, stream, cap, reqs, rets, calls, rsp, off, tasks,
                   seqNext, turn, wire>>

\* A decode error taken for "need more data": the loop reads on.
SeqDecodeSkipErr(c) ==
    /\ mode = "seq"
    /\ pc[c] = "decode"
    /\ LET d == decode(buf[c]) IN
       \/ /\ d.kind \in {"Err", "None"}
          /\ \E cap1 \in EnsureRoom(c, SeqLowWater, SeqReserve) :
                cap' = [cap EXCEPT ![c] = cap1]
          /\ pc' = [pc EXCEPT ![c] = "read"]
          /\ UNCHANGED <<why, errlog, buf, reqs, rets>>
       \/ /\ d.kind = "Some"
          /\ buf' = [buf EXCEPT ![c] = split_to(@, d.amt)]
          /\ cap' = [cap EXCEPT ![c] = @ - d.amt]
          /\ reqs' = [reqs EXCEPT ![c] = Append(@, d.req)]
          /\ rets' = [rets EXCEPT ![c] = Append(@, NoRsp)]
          /\ pc' = [pc EXCEPT ![c] = "call"]
          /\ UNCHANGED <<why, errlog>>
    /\ UNCHANGED <<mode, listener, accepts, stream, input, calls, rsp, off, tasks, seqNext, turn, wire>>

\* HttpServer::start, `match t!(request::decode(&mut buf))`; the None arm
\* runs on, through the growth of the accumulator, to where the loop waits
\* in `stream.read`.
SeqDecode(c) ==
    /\ mode = "seq"
    /\ pc[c] = "decode"
    /\ LET d == decode(buf[c]) IN
       \/ /\ d.kind = "Err"
          /\ Return(c, "decode_err", "decode", d.err)
          /\ UNCHANGED <<buf, cap, reqs, rets>>
       \/ /\ d.kind = "None"
          /\ \E cap1 \in EnsureRoom(c, SeqLowWater, SeqReserve) :
                cap' = [cap EXCEPT ![c] = cap1]
          /\ pc' = [pc EXCEPT ![c] = "read"]
          /\ UNCHANGED <<why, errlog, buf, reqs, rets>>
       \/ /\ d.kind = "Some"
          /\ buf' = [buf EXCEPT ![c] = split_to(@, d.amt)]
          /\ cap' = [cap EXCEPT ![c] = @ - d.amt]
          /\ reqs' = [reqs EXCEPT ![c] = Append(@, d.req)]
          /\ rets' = [rets EXCEPT ![c] = Append(@, NoRsp)]
          /\ pc' = [pc EXCEPT ![c] = "call"]
          /\ UNCHANGED <<why, errlog>>
    /\ UNCHANGED <<mode, listener, accepts, stream, input, calls, rsp, off, tasks, seqNext, turn, wire>>

SeqRead(c) ==
    /\ mode = "seq"
    /\ Read(c)

\* The handler's failure taken through t! like an I/O failure: the loop
\* returns instead of answering.
SeqCallPropagate(c) ==
    /\ mode = "seq"
    /\ pc[c] = "call"
    /\ LET i == Len(reqs[c]) IN
       \E r \in call(reqs[c][i]) :
          LET ret == unwrap_or_else(r) IN
          /\ calls' = [calls EXCEPT ![c] = Append(@, [req |-> i, ok |-> r.ok, err |-> r.err])]
          /\ IF r.ok
             THEN /\ rets' = [rets EXCEPT ![c][i] = ret]
                  /\ rsp' = [rsp EXCEPT ![c] = encode(ret, @)]
                  /\ pc' = [pc EXCEPT ![c] = "write"]
                  /\ UNCHANGED <<why, errlog>>
             ELSE /\ Return(c, "handler_err", "call", "Other")
                  /\ UNCHANGED <<rets, rsp>>
    /\ off' = [off EXCEPT ![c] = 0]
    /\ UNCHANGED <<mode, listener, accepts, stream, buf, cap, input, reqs, tasks, seqNext, turn, wire>>

\* A failed call made a second time.
SeqCallRetry(c) ==
    /\ mode = "seq"
    /\ pc[c] = "call"
    /\ LET i == Len(reqs[c]) IN
       \E r \in call(reqs[c][i]) :
          LET ret == unwrap_or_else(r)
              rec == [req |-> i, ok |-> r.ok, err |-> r.err]
          IN
          /\ calls' = [calls EXCEPT ![c] = IF r.ok THEN Append(@, rec)
                                                  ELSE Append(Append(@, rec), rec)]
          /\ rets' = [rets EXCEPT ![c][i] = ret]
          /\ rsp' = [rsp EXCEPT ![c] = encode(ret, @)]
          /\ errlog' = [errlog EXCEPT ![c] = IF r.ok THEN @ ELSE @ \cup {"service"}]
    /\ off' = [off EXCEPT ![c] = 0]
    /\ pc' = [pc EXCEPT ![c] = "write"]
    /\ UNCHANGED <<mode, listener, accepts, stream, why, buf, cap, input, reqs, tasks, seqNext, turn, wire>>

\* HttpServer::start, the Some arm up to the write: call the handler and
\* encode what it returned into rsp.
SeqCall(c) ==
    /\ mode = "seq"
    /\ pc[c] = "call"
    /\ LET i == Len(reqs[c]) IN
       \E r \in call(reqs[c][i]) :
          LET ret == unwrap_or_else(r) IN
          /\ calls' = [calls EXCEPT ![c] = Append(@, [req |-> i, ok |-> r.ok, err |-> r.err])]
          /\ rets' = [rets EXCEPT ![c][i] = ret]
          /\ rsp' = [rsp EXCEPT ![c] = encode(ret, @)]
          /\ errlog' = [errlog EXCEPT ![c] = IF r.ok THEN @ ELSE @ \cup {"service"}]
    /\ off' = [off EXCEPT ![c] = 0]
    /\ pc' = [pc EXCEPT ![c] = "write"]
    /\ UNCHANGED <<mode, listener, accepts, stream, why, buf, cap, input, reqs, tasks, seqNext, turn, wire>>

\* write in write_all's place: one write call, then on with the loop.
SeqWriteOnce(c) ==
    /\ mode = "seq"
    /\ pc[c] = "write"
    /\ \/ \E n \in 1..(Len(rsp[c]) - off[c]) :
            /\ wire' = [wire EXCEPT ![c] = @ \o SubSeq(rsp[c], off[c] + 1, off[c] + n)]
            /\ rsp' = [rsp EXCEPT ![c] = <<>>]
            /\ off' = [off EXCEPT ![c] = 0]
            /\ pc' = [pc EXCEPT ![c] = "decode"]
            /\ UNCHANGED <<why, errlog>>
       \/ \E k \in IoKinds :
            /\ Return(c, "write_err", "write_all", k)
            /\ UNCHANGED <<wire, rsp, off>>
    /\ UNCHANGED <<mode, listener, accepts, stream, buf, cap, input, reqs, rets, calls, tasks,
                   seqNext, turn>>

\* The loop going to its read after a write, without another decode.
SeqWriteThenRead(c) ==
    /\ mode = "seq"
    /\ pc[c] = "write"
    /\ \/ \E n \in 1..(Len(rsp[c]) - off[c]) :
            /\ wire' = [wire EXCEPT ![c] = @ \o SubSeq(rsp[c], off[c] + 1, off[c] + n)]
            /\ IF off[c] + n = Len(rsp[c])
               THEN /\ rsp' = [rsp EXCEPT ![c] = <<>>]
                    /\ off' = [off EXCEPT ![c] = 0]
                    /\ pc' = [pc EXCEPT ![c] = "read"]
               ELSE /\ off' = [off EXCEPT ![c] = @ + n]
                    /\ UNCHANGED <<rsp, pc>>
            /\ UNCHANGED <<why, errlog>>
       \/ \E k \in IoKinds :
            /\ Return(c, "write_err", "write_all", k)
            /\ UNCHANGED <<wire, rsp, off>>
    /\ UNCHANGED <<mode, listener, accepts, stream, buf, cap, input, reqs, rets, calls, tasks,
                   seqNext, turn>>

\* The response buffer not cleared after the write.
SeqWriteNoClear(c) ==
    /\ mode = "seq"
    /\ pc[c] = "write"
    /\ \/ \E n \in 1..(Len(rsp[c]) - off[c]) :
            /\ wire' = [wire EXCEPT ![c] = @ \o SubSeq(rsp[c], off[c] + 1, off[c] + n)]
            /\ IF off[c] + n = Len(rsp[c])
               THEN /\ UNCHANGED rsp
                    /\ off' = [off EXCEPT ![c] = 0]
                    /\ pc' = [pc EXCEPT ![c] = "decode"]
               ELSE /\ off' = [off EXCEPT ![c] = @ + n]
                    /\ UNCHANGED <<rsp, pc>>
            /\ UNCHANGED <<why, errlog>>
       \/ \E k \in IoKinds :
            /\ Return(c, "write_err", "write_all", k)
            /\ UNCHANGED <<wire, rsp, off>>
    /\ UNCHANGED <<mode, listener, accepts, stream, buf, cap, input, reqs, rets, calls, tasks,
                   seqNext, turn>>

\* HttpServer::start, `t!(stream.write_all(rsp.as_ref())); rsp.clear();`
\* write_all takes one write per step; the last one is followed by the clear.
SeqWrite(c) ==
    /\ mode = "seq"
    /\ pc[c] = "write"
    /\ \/ \E n \in 1..(Len(rsp[c]) - off[c]) :
            /\ wire' = [wire EXCEPT ![c] = @ \o SubSeq(rsp[c], off[c] + 1, off[c] + n)]
            /\ IF off[c] + n = Len(rsp[c])
               THEN /\ rsp' = [rsp EXCEPT ![c] = <<>>]
                    /\ off' = [off EXCEPT ![c] = 0]
                    /\ pc' = [pc EXCEPT ![c] = "decode"]
               ELSE /\ off' = [off EXCEPT ![c] = @ + n]
                    /\ UNCHANGED <<rsp, pc>>
            /\ UNCHANGED <<why, errlog>>
       \/ \E k \in IoKinds :
            /\ Return(c, "write_err", "write_all", k)
            /\ UNCHANGED <<wire, rsp, off>>
    /\ UNCHANGED <<mode, listener, accepts, stream, buf, cap, input, reqs, rets, calls, tasks,
                   seqNext, turn>>

\* One ticket taken for all the requests of the connection.
PipeDecodeOneTicket(c) ==
    /\ mode = "pipe"
    /\ pc[c] = "decode"
    /\ LET d == decode(buf[c]) IN
       \/ /\ d.kind = "Err"
          /\ Return(c, "decode_err", "decode", d.err)
          /\ UNCHANGED <<buf, cap, reqs, rets, tasks, seqNext>>
       \/ /\ d.kind = "None"
          /\ \E cap1 \in EnsureRoom(c, PipeLowWater, PipeReserve) :
                cap' = [cap EXCEPT ![c] = cap1]
          /\ pc' = [pc EXCEPT ![c] = "read"]
          /\ UNCHANGED <<why, errlog, buf, reqs, rets, tasks, seqNext>>
       \/ /\ d.kind = "Some"
          /\ buf' = [buf EXCEPT ![c] = split_to(@, d.amt)]
          /\ cap' = [cap EXCEPT ![c] = @ - d.amt]
          /\ reqs' = [reqs EXCEPT ![c] = Append(@, d.req)]
          /\ rets' = [rets EXCEPT ![c] = Append(@, NoRsp)]
          /\ UNCHANGED seqNext
          /\ tasks' = [tasks EXCEPT ![c] =
                Append(@, [ticket |-> next(seqNext[c]).ticket, pc |-> "call",
                           rsp |-> <<>>, off |-> 0])]
          /\ UNCHANGED <<pc, why, errlog>>
    /\ UNCHANGED <<mode, listener, accepts, stream, input, calls, rsp, off, turn, wire>>

\* The main loop joining the task it spawned before it decodes again.
PipeDecodeWaits(c) ==
    /\ mode = "pipe"
    /\ pc[c] = "decode"
    /\ \A i \in 1..Len(tasks[c]) : tasks[c][i].pc \in {"done", "failed"}
    /\ LET d == decode(buf[c]) IN
       \/ /\ d.kind = "Err"
          /\ Return(c, "decode_err", "decode", d.err)
          /\ UNCHANGED <<buf, cap, reqs, rets, tasks, seqNext>>
       \/ /\ d.kind = "None"
          /\ \E cap1 \in EnsureRoom(c, PipeLowWater, PipeReserve) :
                cap' = [cap EXCEPT ![c] = cap1]
          /\ pc' = [pc EXCEPT ![c] = "read"]
          /\ UNCHANGED <<why, errlog, buf, reqs, rets, tasks, seqNext>>
       \/ /\ d.kind = "Some"
          /\ buf' = [buf EXCEPT ![c] = split_to(@, d.amt)]
          /\ cap' = [cap EXCEPT ![c] = @ - d.amt]
          /\ reqs' = [reqs EXCEPT ![c] = Append(@, d.req)]
          /\ rets' = [rets EXCEPT ![c] = Append(@, NoRsp)]
          /\ seqNext' = [seqNext EXCEPT ![c] = next(@).counter]
          /\ tasks' = [tasks EXCEPT ![c] =
                Append(@, [ticket |-> next(seqNext[c]).ticket, pc |-> "call",
                           rsp |-> <<>>, off |-> 0])]
          /\ UNCHANGED <<pc, why, errlog>>
    /\ UNCHANGED <<mode, listener, accepts, stream, input, calls, rsp, off, turn, wire>>

\* HttpPipelineServer::start, `match t!(request::decode(&mut buf))`: a decoded
\* request takes the next ticket and is handed to a task of its own; the
\* None arm runs on, through the growth of the accumulator, to where the
\* loop waits in `reader.read`.
PipeDecode(c) ==
    /\ mode = "pipe"
    /\ pc[c] = "decode"
    /\ LET d == decode(buf[c]) IN
       \/ /\ d.kind = "Err"
          /\ Return(c, "decode_err", "decode", d.err)
          /\ UNCHANGED <<buf, cap, reqs, rets, tasks, seqNext>>
       \/ /\ d.kind = "None"
          /\ \E cap1 \in EnsureRoom(c, PipeLowWater, PipeReserve) :
                cap' = [cap EXCEPT ![c] = cap1]
          /\ pc' = [pc EXCEPT ![c] = "read"]
          /\ UNCHANGED <<why, errlog, buf, reqs, rets, tasks, seqNext>>
       \/ /\ d.kind = "Some"
          /\ buf' = [buf EXCEPT ![c] = split_to(@, d.amt)]
          /\ cap' = [cap EXCEPT ![c] = @ - d.amt]
          /\ reqs' = [reqs EXCEPT ![c] = Append(@, d.req)]
          /\ rets' = [rets EXCEPT ![c] = Append(@, NoRsp)]
          /\ seqNext' = [seqNext EXCEPT ![c] = next(@).counter]
          /\ tasks' = [tasks EXCEPT ![c] =
                Append(@, [ticket |-> next(seqNext[c]).ticket, pc |-> "call",
                           rsp |-> <<>>, off |-> 0])]
          /\ UNCHANGED <<pc, why, errlog>>
    /\ UNCHANGED <<mode, listener, accepts, stream, input, calls, rsp, off, turn, wire>>

PipeRead(c) ==
    /\ mode = "pipe"
    /\ Read(c)

\* The spawned task, up to writer.lock(): call the handler and encode what
\* it returned into a buffer of its own.
TaskCall(c, i) ==
    /\ mode = "pipe"
    /\ i \in 1..Len(tasks[c])
    /\ tasks[c][i].pc = "call"
    /\ \E r \in call(reqs[c][i]) :
          LET ret == unwrap_or_else(r) IN
          /\ calls' = [calls EXCEPT ![c] = Append(@, [req |-> i, ok |-> r.ok, err |-> r.err])]
          /\ rets' = [rets EXCEPT ![c][i] = ret]
          /\ tasks' = [tasks EXCEPT ![c][i].rsp = encode(ret, <<>>),
                                    ![c][i].pc = "lock"]
          /\ errlog' = [errlog EXCEPT ![c] = IF r.ok THEN @ ELSE @ \cup {"service"}]
    /\ UNCHANGED <<mode, listener, accepts, stream, pc, why, buf, cap, input, reqs, rsp, off,
                   seqNext, turn, wire>>

\* A plain mutex in the sequencer's place: whoever arrives while nobody
\* writes is admitted.
TaskLockMutex(c, i) ==
    /\ mode = "pipe"
    /\ i \in 1..Len(tasks[c])
    /\ tasks[c][i].pc = "lock"
    /\ \A j \in 1..Len(tasks[c]) : tasks[c][j].pc # "write"
    /\ tasks' = [tasks EXCEPT ![c][i].pc = "write"]
    /\ UNCHANGED <<mode, listener, accepts, stream, pc, why, buf, cap, input, reqs, rets, calls,
                   rsp, off, seqNext, turn, wire, errlog>>

\* No wait at all before the write.
TaskLockNoWait(c, i) ==
    /\ mode = "pipe"
    /\ i \in 1..Len(tasks[c])
    /\ tasks[c][i].pc = "lock"
    /\ tasks' = [tasks EXCEPT ![c][i].pc = "write"]
    /\ UNCHANGED <<mode, listener, accepts, stream, pc, why, buf, cap, input, reqs, rets, calls,
                   rsp, off, seqNext, turn, wire, errlog>>

\* Admission one turn early: as soon as the holder of the ticket before has
\* been admitted.
TaskLockEarly(c, i) ==
    /\ mode = "pipe"
    /\ i \in 1..Len(tasks[c])
    /\ tasks[c][i].pc = "lock"
    /\ turn[c] + 1 >= tasks[c][i].ticket
    /\ \A j \in 1..Len(tasks[c]) :
          tasks[c][j].ticket + 1 = tasks[c][i].ticket => tasks[c][j].pc # "call"
    /\ tasks' = [tasks EXCEPT ![c][i].pc = "write"]
    /\ UNCHANGED <<mode, listener, accepts, stream, pc, why, buf, cap, input, reqs, rets, calls,
                   rsp, off, seqNext, turn, wire, errlog>>

\* The spawned task, `let mut writer = writer.lock();`
TaskLock(c, i) ==
    /\ mode = "pipe"
    /\ i \in 1..Len(tasks[c])
    /\ tasks[c][i].pc = "lock"
    /\ lock(turn[c], tasks[c][i].ticket)
    /\ tasks' = [tasks EXCEPT ![c][i].pc = "write"]
    /\ UNCHANGED <<mode, listener, accepts, stream, pc, why, buf, cap, input, reqs, rets, calls,
                   rsp, off, seqNext, turn, wire, errlog>>

\* The guard not given back when the write fails: the turn stays with the
\* task that returned.
TaskWriteKeepTurn(c, i) ==
    /\ mode = "pipe"
    /\ i \in 1..Len(tasks[c])
    /\ tasks[c][i].pc = "write"
    /\ LET t == tasks[c][i] IN
       \/ \E n \in 1..(Len(t.rsp) - t.off) :
            /\ wire' = [wire EXCEPT ![c] = @ \o SubSeq(t.rsp, t.off + 1, t.off + n)]
            /\ IF t.off + n = Len(t.rsp)
               THEN /\ tasks' = [tasks EXCEPT ![c][i].off = t.off + n,
                                              ![c][i].pc = "done"]
                    /\ turn' = [turn EXCEPT ![c] = release(@)]
               ELSE /\ tasks' = [tasks EXCEPT ![c][i].off = t.off + n]
                    /\ UNCHANGED turn
            /\ UNCHANGED errlog
       \/ \E k \in IoKinds :
            /\ tasks' = [tasks EXCEPT ![c][i].pc = "failed"]
            /\ errlog' = [errlog EXCEPT ![c] =
                            IF t_logs(k) THEN @ \cup {"write_all"} ELSE @]
            /\ UNCHANGED <<wire, turn>>
    /\ UNCHANGED <<mode, listener, accepts, stream, pc, why, buf, cap, input, reqs, rets, calls,
                   rsp, off, seqNext>>

\* The spawned task, `t!(writer.write_all(rsp.as_ref()));` and the end of
\* the task: the guard is dropped on both ways out.
TaskWrite(c, i) ==
    /\ mode = "pipe"
    /\ i \in 1..Len(tasks[c])
    /\ tasks[c][i].pc = "write"
    /\ LET t == tasks[c][i] IN
       \/ \E n \in 1..(Len(t.rsp) - t.off) :
            /\ wire' = [wire EXCEPT ![c] = @ \o SubSeq(t.rsp, t.off + 1, t.off + n)]
            /\ IF t.off + n = Len(t.rsp)
               THEN /\ tasks' = [tasks EXCEPT ![c][i].off = t.off + n,
                                              ![c][i].pc = "done"]
                    /\ turn' = [turn EXCEPT ![c] = release(@)]
               ELSE /\ tasks' = [tasks EXCEPT ![c][i].off = t.off + n]
                    /\ UNCHANGED turn
            /\ UNCHANGED errlog
       \/ \E k \in IoKinds :
            /\ tasks' = [tasks EXCEPT ![c][i].pc = "failed"]
            /\ turn' = [turn EXCEPT ![c] = release(@)]
            /\ errlog' = [errlog EXCEPT ![c] =
                            IF t_logs(k) THEN @ \cup {"write_all"} ELSE @]
            /\ UNCHANGED wire
    /\ UNCHANGED <<mode, listener, accepts, stream, pc, why, buf, cap, input, reqs, rets, calls,
                   rsp, off, seqNext>>

TaskIds == 1..(MaxStream + 1)

Next ==
    \E c \in Conns :
       \/ SeqDecode(c)
       \/ SeqRead(c)
       \/ SeqCall(c)
       \/ SeqWrite(c)
       \/ PipeDecode(c)
       \/ PipeRead(c)
       \/ \E i \in TaskIds : TaskCall(c, i) \/ TaskLock(c, i) \/ TaskWrite(c, i)

Spec == Init /\ [][Next]_vars

\* Pipelined mode alone, every spawned task scheduled fairly: a handler that
\* was started returns, a task whose turn has come is woken, a write call
\* returns.
InitPipe ==
    /\ mode = "pipe"
    /\ listener = "running"
    /\ \E s \in StreamsUpTo(MaxStreamFair) : Accepted(s)

NextPipe ==
    \E c \in Conns :
       \/ PipeDecode(c)
       \/ PipeRead(c)
       \/ \E i \in TaskIds : TaskCall(c, i) \/ TaskLock(c, i) \/ TaskWrite(c, i)

TaskFairness ==
    \A c \in Conns : \A i \in TaskIds :
       /\ WF_vars(TaskCall(c, i))
       /\ WF_vars(TaskLock(c, i))
       /\ WF_vars(TaskWrite(c, i))

PipeFairSpec == InitPipe /\ [][NextPipe]_vars /\ TaskFairness

\* ------------------------------------------------- a filling accumulator
\* n bytes of a request whose end has not come yet.
Fill(n) == [k \in 1..n |-> "a"]

\* Fill levels around the low-water mark and at the end of a buffer of the
\* initial capacity.
FillLevels(capacity, low) ==
    {capacity - low - 1, capacity - low, capacity - low + 1, capacity - 1, capacity}

\* The loop of connection 1 after its reads have brought in the first n
\* bytes of a long request, the accumulator still at its initial capacity
\* (n <= capacity: no read so far has found less than the low-water mark
\* of room), the peer having t more to send.
Filled(n, t) ==
    /\ listener = "running"
    /\ accepts = <<"ok">>
    /\ pc = [c \in Conns |-> IF c = 1 THEN "decode" ELSE "none"]
    /\ why = [c \in Conns |-> "open"]
    /\ buf = [c \in Conns |-> IF c = 1 THEN Fill(n) ELSE <<>>]
    /\ cap = [c \in Conns |-> IF c # 1 THEN 0
                              ELSE IF mode = "seq" THEN SeqBufCap ELSE PipeBufCap]
    /\ stream = [c \in Conns |-> IF c = 1 THEN Fill(n) \o t ELSE <<>>]
    /\ input = [c \in Conns |-> IF c = 1 THEN t ELSE <<>>]
    /\ reqs = [c \in Conns |-> <<>>]
    /\ rets = [c \in Conns |-> <<>>]
    /\ calls = [c \in Conns |-> <<>>]
    /\ rsp = [c \in Conns |-> <<>>]
    /\ off = [c \in Conns |-> 0]
    /\ tasks = [c \in Conns |-> <<>>]
    /\ seqNext = [c \in Conns |-> 0]
    /\ turn = [c \in Conns |-> 0]
    /\ wire = [c \in Conns |-> <<>>]
    /\ errlog = [c \in Conns |-> {}]

InitCap ==
    /\ mode \in {"seq", "pipe"}
    /\ \E t \in StreamsUpTo(MaxCapTail) :
         \E n \in IF mode = "seq" THEN FillLevels(SeqBufCap, SeqLowWater)
                                  ELSE FillLevels(PipeBufCap, PipeLowWater) :
            Filled(n, t)

\* The steps of the main loops that touch the accumulator.
NextCap ==
    \E c \in Conns : SeqDecode(c) \/ SeqRead(c) \/ PipeDecode(c) \/ PipeRead(c)

CapSpec == InitCap /\ [][NextCap]_vars

\* ---------------------------------------------------------- the accept loop
\* What the peers of the accept loop's connections send before they close.
ListenerStreams == {<<"$">>, <<"!">>}

\* The connections that arrive at the listener, in the order of their ids.
Arriving == {1, 2}

\* Iterations of the accept loop that ended in t_c!'s `continue`.
AcceptErrs == Cardinality({k \in 1..Len(accepts) : accepts[k] # "ok"})

\* `go!(move || { ... })` of the accept loop: the loop of connection c starts
\* with an empty accumulator of the mode's capacity.
Spawn(c, s) ==
    /\ pc' = [pc EXCEPT ![c] = "decode"]
    /\ cap' = [cap EXCEPT ![c] = IF mode = "seq" THEN SeqBufCap ELSE PipeBufCap]
    /\ stream' = [stream EXCEPT ![c] = s]
    /\ input' = [input EXCEPT ![c] = s]

\* One iteration of `for stream in listener.incoming()` that gets through
\* t_c! (both of them in pipelined mode) and spawns the connection's loop.
Accept(c) ==
    /\ listener = "running"
    /\ c \in Arriving
    /\ pc[c] = "none"
    /\ \A d \in Conns : d < c => pc[d] # "none"
    /\ \E s \in ListenerStreams : Spawn(c, s)
    /\ accepts' = Append(accepts, "ok")
    /\ UNCHANGED <<mode, listener, why, buf, reqs, rets, calls, rsp, off, tasks,
                   seqNext, turn, wire, errlog>>

\* The accept loop returning on a failed accept (t! in place of t_c!).
AcceptFailStops ==
    /\ listener = "running"
    /\ AcceptErrs < MaxAcceptErrs
    /\ accepts' = Append(accepts, "accept_err")
    /\ listener' = "cancelled"
    /\ UNCHANGED <<mode, pc, why, buf, cap, stream, input, reqs, rets, calls, rsp, off,
                   tasks, seqNext, turn, wire, errlog>>

\* `let mut stream = t_c!(stream);` on an Err item: log and continue.
AcceptFail ==
    /\ listener = "running"
    /\ AcceptErrs < MaxAcceptErrs
    /\ accepts' = Append(accepts, "accept_err")
    /\ UNCHANGED <<mode, listener, pc, why, buf, cap, stream, input, reqs, rets, calls,
                   rsp, off, tasks, seqNext, turn, wire, errlog>>

\* `let writer = t_c!(stream.try_clone());` on Err: log and continue, the
\* accepted stream is dropped.
CloneFail ==
    /\ mode = "pipe"
    /\ listener = "running"
    /\ AcceptErrs < MaxAcceptErrs
    /\ accepts' = Append(accepts, "clone_err")
    /\ UNCHANGED <<mode, listener, pc, why, buf, cap, stream, input, reqs, rets, calls,
                   rsp, off, tasks, seqNext, turn, wire, errlog>>

\* Cancelling the listener takes down every loop and task it spawned.
CancelAll ==
    /\ listener = "running"
    /\ listener' = "cancelled"
    /\ pc' = [c \in Conns |-> IF pc[c] = "none" THEN "none" ELSE "closed"]
    /\ tasks' = [c \in Conns |->
                   [i \in 1..Len(tasks[c]) |->
                      IF tasks[c][i].pc \in {"done", "failed"} THEN tasks[c][i]
                      ELSE [tasks[c][i] EXCEPT !.pc = "failed"]]]
    /\ UNCHANGED <<mode, accepts, why, buf, cap, stream, input, reqs, rets, calls, rsp,
                   off, seqNext, turn, wire, errlog>>

\* The caller cancels the coroutine whose JoinHandle start returned: the
\* accept loop ends, the coroutines it spawned are not touched.
Cancel ==
    /\ listener = "running"
    /\ listener' = "cancelled"
    /\ UNCHANGED <<mode, accepts, pc, why, buf, cap, stream, input, reqs, rets, calls,
                   rsp, off, tasks, seqNext, turn, wire, errlog>>

\* A step of the loop of connection c.
MainStep(c) ==
    SeqDecode(c) \/ SeqRead(c) \/ SeqCall(c) \/ SeqWrite(c) \/ PipeDecode(c) \/ PipeRead(c)

\* A step of the i-th task spawned on connection c.
TaskStep(c, i) == TaskCall(c, i) \/ TaskLock(c, i) \/ TaskWrite(c, i)

\* The server right after start: listening, nothing accepted yet.
InitListener ==
    /\ mode \in {"seq", "pipe"}
    /\ listener = "running"
    /\ accepts = <<>>
    /\ pc = [c \in Conns |-> "none"]
    /\ why = [c \in Conns |-> "open"]
    /\ buf = [c \in Conns |-> <<>>]
    /\ cap = [c \in Conns |-> 0]
    /\ stream = [c \in Conns |-> <<>>]
    /\ input = [c \in Conns |-> <<>>]
    /\ reqs = [c \in Conns |-> <<>>]
    /\ rets = [c \in Conns |-> <<>>]
    /\ calls = [c \in Conns |-> <<>>]
    /\ rsp = [c \in Conns |-> <<>>]
    /\ off = [c \in Conns |-> 0]
    /\ tasks = [c \in Conns |-> <<>>]
    /\ seqNext = [c \in Conns |-> 0]
    /\ turn = [c \in Conns |-> 0]
    /\ wire = [c \in Conns |-> <<>>]
    /\ errlog = [c \in Conns |-> {}]

NextListener ==
    \/ \E c \in Conns : Accept(c)
    \/ AcceptFail
    \/ CloneFail
    \/ Cancel
    \/ Next

ListenerSpec == InitListener /\ [][NextListener]_vars

\* ------------------------------------------------------- derived quantities
\* Everything the server holds for connection c.
ConnState(c) ==
    <<pc[c], why[c], buf[c], cap[c], stream[c], input[c], reqs[c], rets[c], calls[c],
      rsp[c], off[c], tasks[c], seqNext[c], turn[c], wire[c], errlog[c]>>

IsPrefix(a, b) == Len(a) <= Len(b) /\ SubSeq(b, 1, Len(a)) = a

\* The bytes of one response on the wire.
Enc(r) == encode(r, <<>>)

RECURSIVE ConcatEnc(_, _)
\* encode(rs[1]) ++ ... ++ encode(rs[k])
ConcatEnc(rs, k) == IF k = 0 THEN <<>> ELSE ConcatEnc(rs, k - 1) \o Enc(rs[k])

RECURSIVE WrittenParts(_, _)
\* What the first k tasks have written so far, task after task.
WrittenParts(ts, k) ==
    IF k = 0 THEN <<>>
    ELSE WrittenParts(ts, k - 1) \o SubSeq(ts[k].rsp, 1, ts[k].off)

TasksAt(c, where) == {i \in 1..Len(tasks[c]) : tasks[c][i].pc = where}

NoWriteFailed(c) == TasksAt(c, "failed") = {}

\* ------------------------------------------------------------------ claims
\* C1: pipelined mode, as long as no write has failed the bytes on the wire
\* are encode(response(R1)) ++ ... ++ encode(response(Rk)) for the k tasks that
\* completed their write, these being the first k requests in decode order,
\* followed by a prefix of encode(response(R(k+1))) while that task writes;
\* whatever the order in which the handlers completed.
C1_OrderInvariant ==
    mode = "pipe" =>
      \A c \in Conns : NoWriteFailed(c) =>
        LET k == Cardinality(TasksAt(c, "done")) IN
        /\ TasksAt(c, "done") = 1..k
        /\ IsPrefix(ConcatEnc(rets[c], k), wire[c])
        /\ IF k < Len(tasks[c]) /\ tasks[c][k + 1].pc = "write"
           THEN IsPrefix(wire[c], ConcatEnc(rets[c], k + 1))
           ELSE wire[c] = ConcatEnc(rets[c], k)

\* Three requests whose handlers completed in the order R2, R3, R1, with
\* differing responses, all written.
C1_Witness ==
    /\ mode = "pipe"
    /\ Len(reqs[1]) = 3
    /\ TasksAt(1, "done") = 1..3
    /\ [j \in 1..3 |-> calls[1][j].req] = <<2, 3, 1>>
    /\ rets[1][1] # rets[1][2]
    /\ rets[1][2] # rets[1][3]
    /\ wire[1] = ConcatEnc(rets[1], 3)

\* C2: pipelined mode, at most one task of a connection is between
\* writer.lock() and the release of the guard, and the wire holds each
\* task's written bytes as one contiguous piece, never two responses' bytes
\* interleaved.
C2_NoInterleaving ==
    mode = "pipe" =>
      \A c \in Conns :
        /\ Cardinality(TasksAt(c, "write")) <= 1
        /\ wire[c] = WrittenParts(tasks[c], Len(tasks[c]))

\* One task in the middle of its write_all while another, its response
\* encoded, is parked at writer.lock().
C2_Witness ==
    /\ mode = "pipe"
    /\ \E i \in TasksAt(1, "write") :
         /\ 0 < tasks[1][i].off
         /\ tasks[1][i].off < Len(tasks[1][i].rsp)
    /\ TasksAt(1, "lock") # {}

\* How often the handler was called with request i of connection c.
CallCount(c, i) == Cardinality({j \in 1..Len(calls[c]) : calls[c][j].req = i})

\* Request i of connection c has been handed to the handler.
Called(c, i) ==
    IF mode = "pipe" THEN tasks[c][i].pc # "call"
    ELSE i < Len(reqs[c]) \/ pc[c] # "call"

\* The write of response i has come to its end, completed or failed.
WriteEnded(c, i) ==
    IF mode = "pipe" THEN tasks[c][i].pc \in {"done", "failed"}
    ELSE i < Len(reqs[c]) \/ pc[c] \in {"decode", "read", "closed"}

WriteFailed(c, i) ==
    IF mode = "pipe" THEN tasks[c][i].pc = "failed"
    ELSE i = Len(reqs[c]) /\ why[c] = "write_err"

\* Bytes of response i the write calls have accepted.
Sent(c, i) ==
    IF mode = "pipe" THEN tasks[c][i].off
    ELSE IF i = Len(reqs[c]) /\ (pc[c] \in {"call", "write"} \/ why[c] = "write_err")
         THEN off[c]
         ELSE Len(Enc(rets[c][i]))

RECURSIVE WirePieces(_, _)
\* For the first k requests in decode order, the sent part of each one's
\* encoded response.
WirePieces(c, k) ==
    IF k = 0 THEN <<>>
    ELSE WirePieces(c, k - 1) \o SubSeq(Enc(rets[c][k]), 1, Sent(c, k))

\* C3: in both modes a failing handler yields the 500 response whose body is
\* the failure's description, and the step in which the handler fails never
\* makes the connection loop return: the loop goes on to write the response
\* (sequential) or keeps decoding (pipelined).
C3_HandlerFailureContained ==
    /\ [](\A c \in Conns : \A j \in 1..Len(calls[c]) :
            ~calls[c][j].ok =>
               /\ CallCount(c, calls[c][j].req) = 1
               /\ rets[c][calls[c][j].req] =
                     [status |-> StatusInternalError, body |-> calls[c][j].err])
    /\ [][\A c \in Conns :
            (Len(calls'[c]) > Len(calls[c]) /\ ~calls'[c][Len(calls'[c])].ok) =>
               /\ pc'[c] = "closed" => pc[c] = "closed"
               /\ mode = "seq" => pc'[c] = "write"
               /\ why'[c] = why[c]
               /\ wire'[c] = wire[c]]_vars

\* Sequential mode: the handler failed for the first request, the 500
\* response was written, and the second request was decoded, handled and
\* answered on the same connection.
C3_Witness ==
    /\ mode = "seq"
    /\ Len(reqs[1]) = 2
    /\ Len(calls[1]) = 2
    /\ ~calls[1][1].ok
    /\ rets[1][1] = [status |-> StatusInternalError, body |-> calls[1][1].err]
    /\ pc[1] = "decode"
    /\ wire[1] = ConcatEnc(rets[1], 2)

\* C4 as stated: every request whose handling has come to its end was
\* called once and has its response on the connection, whole.
C4_Original ==
    \A c \in Conns : \A i \in 1..Len(reqs[c]) :
       WriteEnded(c, i) =>
          /\ CallCount(c, i) = 1
          /\ Sent(c, i) = Len(Enc(rets[c][i]))

\* C4, amended: in both modes every decoded request is handed to the handler
\* exactly once, the wire is made of one piece per request (in decode order),
\* each a prefix of that request's one encoded response, and the piece is
\* the whole response once the write has ended, unless that write failed.
C4_ExactlyOnce ==
    \A c \in Conns :
       /\ \A j \in 1..Len(calls[c]) : calls[c][j].req \in 1..Len(reqs[c])
       /\ \A i \in 1..Len(reqs[c]) :
            /\ CallCount(c, i) = IF Called(c, i) THEN 1 ELSE 0
            /\ Sent(c, i) <= Len(Enc(rets[c][i]))
            /\ ~Called(c, i) => Sent(c, i) = 0
            /\ (WriteEnded(c, i) /\ ~WriteFailed(c, i)) =>
                  Sent(c, i) = Len(Enc(rets[c][i]))
       /\ wire[c] = WirePieces(c, Len(reqs[c]))

\* Two requests in pipelined mode, one handler succeeded and one failed,
\* both responses written whole; and the same with one write failed is the
\* case the amendment excludes.
C4_Witness ==
    /\ mode = "pipe"
    /\ Len(reqs[1]) = 2
    /\ TasksAt(1, "done") = {1, 2}
    /\ calls[1][1].ok # calls[1][2].ok
    /\ wire[1] = ConcatEnc(rets[1], 2)

\* Task i of connection c has returned.
TaskFinished(c, i) ==
    /\ i \in 1..Len(tasks[c])
    /\ tasks[c][i].pc \in {"done", "failed"}

\* C5 as stated: once the main loop has returned, a spawned task that has
\* come to its end has written its response.
C5_Original ==
    \A c \in Conns : \A i \in 1..Len(tasks[c]) :
       (pc[c] = "closed" /\ TaskFinished(c, i)) =>
          /\ tasks[c][i].off = Len(tasks[c][i].rsp)
          /\ tasks[c][i].rsp = Enc(rets[c][i])

\* C5, amended: once the main loop has returned, every task spawned before
\* eventually runs its handler, is admitted and comes to the end of its
\* write; tasks end in ticket order, and a task whose write did not fail has
\* written its whole response.
C5_GracefulDrain ==
    /\ \A c \in Conns : \A i \in TaskIds :
          (pc[c] = "closed" /\ i \in 1..Len(tasks[c])) ~> TaskFinished(c, i)
    /\ [](\A c \in Conns :
            /\ \E k \in 0..Len(tasks[c]) :
                  TasksAt(c, "done") \cup TasksAt(c, "failed") = 1..k
            /\ \A i \in TasksAt(c, "done") :
                  /\ CallCount(c, i) = 1
                  /\ tasks[c][i].off = Len(tasks[c][i].rsp)
                  /\ tasks[c][i].rsp = Enc(rets[c][i]))

\* The main loop has returned on a zero-byte read while the first task has
\* not yet run its handler and the second is parked at writer.lock().
C5_Witness ==
    /\ mode = "pipe"
    /\ pc[1] = "closed"
    /\ why[1] = "eof"
    /\ Len(tasks[1]) = 2
    /\ tasks[1][1].pc = "call"
    /\ tasks[1][2].pc = "lock"

\* The bytes the loop has read from the peer so far.
Received(c) == SubSeq(stream[c], 1, Len(stream[c]) - Len(input[c]))

RECURSIVE DecodeAll(_)
\* The requests decode yields from b, frame after frame, up to the first
\* incomplete or malformed one.
DecodeAll(b) ==
    LET d == decode(b) IN
    IF d.kind = "Some" THEN <<d.req>> \o DecodeAll(split_to(b, d.amt)) ELSE <<>>

RECURSIVE Frames(_, _)
\* The bytes of the first k requests of rs as the peer sent them.
Frames(rs, k) == IF k = 0 THEN <<>> ELSE Frames(rs, k - 1) \o rs[k] \o <<"$">>

\* C6: sequential mode, at most one request is in flight: when a request is
\* about to be decoded or its handler about to be called, every earlier
\* response is on the wire in full and in arrival order, the handler has been
\* called for exactly the earlier requests, in order.
C6_OneInFlight ==
    mode = "seq" =>
      \A c \in Conns :
        LET n == Len(reqs[c]) IN
        /\ \A j \in 1..Len(calls[c]) : calls[c][j].req = j
        /\ pc[c] \in {"decode", "read"} =>
              /\ wire[c] = ConcatEnc(rets[c], n)
              /\ Len(calls[c]) = n
        /\ pc[c] = "call" =>
              /\ wire[c] = ConcatEnc(rets[c], n - 1)
              /\ Len(calls[c]) = n - 1
        /\ pc[c] = "write" =>
              /\ IsPrefix(ConcatEnc(rets[c], n - 1), wire[c])
              /\ IsPrefix(wire[c], ConcatEnc(rets[c], n))
              /\ Len(wire[c]) < Len(ConcatEnc(rets[c], n))
              /\ Len(calls[c]) = n

\* The handler is about to be called for the second request, the first
\* response being on the wire in full.
C6_Witness ==
    /\ mode = "seq"
    /\ pc[1] = "call"
    /\ Len(reqs[1]) = 2
    /\ Len(calls[1]) = 1
    /\ wire[1] = Enc(rets[1][1])

\* C7: sequential mode, the loop reads only when decode reports "incomplete":
\* at a read the accumulator holds no complete request, every complete
\* request of the bytes received so far has been decoded and answered in
\* full, in arrival order; and after a completed write the loop decodes again.
C7_DecodeBeforeRead ==
    /\ [](mode = "seq" =>
            \A c \in Conns :
              pc[c] = "read" =>
                 /\ decode(buf[c]).kind = "None"
                 /\ reqs[c] = DecodeAll(Received(c))
                 /\ wire[c] = ConcatEnc(rets[c], Len(reqs[c])))
    /\ [][mode = "seq" =>
            \A c \in Conns :
              (pc[c] = "write" /\ pc'[c] \notin {"write", "closed"}) =>
                 pc'[c] = "decode"]_vars

\* The first response is being written while the accumulator already holds
\* the second request, complete: both came in with one read.
C7_Witness ==
    /\ mode = "seq"
    /\ pc[1] = "write"
    /\ Len(reqs[1]) = 1
    /\ decode(buf[1]).kind = "Some"
    /\ input[1] = <<>>

\* C8: both modes, whatever the split of the peer's stream into reads: the
\* decoded frames, the accumulator and the unread bytes together are the
\* stream (nothing lost, nothing decoded twice); the requests decoded are a
\* prefix of those of the whole stream; and whenever decode has reported
\* "incomplete" or the loop has returned from decoding or reading, they are
\* exactly the requests of the bytes received.
C8_SplitIndependent ==
    \A c \in Conns :
      /\ Frames(reqs[c], Len(reqs[c])) \o buf[c] \o input[c] = stream[c]
      /\ IsPrefix(reqs[c], DecodeAll(stream[c]))
      /\ (pc[c] = "read" \/ why[c] \in {"eof", "read_err", "decode_err"}) =>
            reqs[c] = DecodeAll(Received(c))
      /\ why[c] = "eof" => reqs[c] = DecodeAll(stream[c])

\* A request of two bytes and its end arriving in three reads: the loop is
\* at its third read with the first two bytes in the accumulator.
C8_Witness ==
    /\ stream[1] = <<"a", "a", "$">>
    /\ pc[1] = "read"
    /\ buf[1] = <<"a", "a">>
    /\ input[1] = <<"$">>

\* C9: both modes, a decode error makes the loop return: the step writes
\* nothing, logs the error, decodes, tickets and spawns nothing; and once the
\* loop has returned no request is decoded, ticketed or handed to a new task.
C9_DecodeErrorCloses ==
    /\ [](\A c \in Conns :
            why[c] = "decode_err" =>
               /\ pc[c] = "closed"
               /\ decode(buf[c]).kind = "Err"
               /\ "decode" \in errlog[c]
               /\ reqs[c] = DecodeAll(stream[c]))
    /\ [][\A c \in Conns :
            (pc[c] = "decode" /\ decode(buf[c]).kind = "Err") =>
               /\ pc'[c] \in {"decode", "closed"}
               /\ pc'[c] = "closed" =>
                     /\ why'[c] = "decode_err"
                     /\ wire'[c] = wire[c]
                     /\ calls'[c] = calls[c]
               /\ reqs'[c] = reqs[c]
               /\ seqNext'[c] = seqNext[c]
               /\ Len(tasks'[c]) = Len(tasks[c])]_vars
    /\ [][\A c \in Conns :
            pc[c] = "closed" =>
               /\ pc'[c] = "closed"
               /\ reqs'[c] = reqs[c]
               /\ buf'[c] = buf[c]
               /\ input'[c] = input[c]
               /\ seqNext'[c] = seqNext[c]
               /\ Len(tasks'[c]) = Len(tasks[c])]_vars

\* A request, a malformed byte, another well-formed request: the loop has
\* returned on the malformed byte with one request decoded.
C9_Witness ==
    /\ stream[1] = <<"$", "!", "$">>
    /\ why[1] = "decode_err"
    /\ Len(reqs[1]) = 1

\* C10 as stated, its last part: after the zero-byte read the handler is not
\* called again.
C10_Original ==
    [][\A c \in Conns : why[c] = "eof" => calls'[c] = calls[c]]_vars

\* C10, amended: both modes, the zero-byte read makes the loop return without
\* an error-level log entry, without a write and without a call; the bytes
\* left in the accumulator are an incomplete request and never become a
\* request or a response. In sequential mode nothing is called or written
\* afterwards; in pipelined mode no request is decoded or spawned afterwards,
\* but the tasks spawned before may still call the handler and write.
C10_GracefulEof ==
    /\ [][\A c \in Conns :
            (why[c] = "open" /\ why'[c] = "eof") =>
               /\ pc'[c] = "closed"
               /\ input[c] = <<>>
               /\ errlog'[c] = errlog[c]
               /\ wire'[c] = wire[c]
               /\ calls'[c] = calls[c]
               /\ reqs'[c] = reqs[c]
               /\ tasks'[c] = tasks[c]]_vars
    /\ [][\A c \in Conns :
            why[c] = "eof" =>
               /\ pc'[c] = "closed"
               /\ why'[c] = "eof"
               /\ reqs'[c] = reqs[c]
               /\ buf'[c] = buf[c]
               /\ Len(tasks'[c]) = Len(tasks[c])
               /\ mode = "seq" =>
                     /\ calls'[c] = calls[c]
                     /\ wire'[c] = wire[c]
                     /\ errlog'[c] = errlog[c]]_vars
    /\ [](\A c \in Conns :
            why[c] = "eof" =>
               /\ decode(buf[c]).kind = "None"
               /\ reqs[c] = DecodeAll(stream[c])
               /\ wire[c] = WirePieces(c, Len(reqs[c]))
               /\ mode = "seq" =>
                     /\ wire[c] = ConcatEnc(rets[c], Len(reqs[c]))
                     /\ "read" \notin errlog[c]
                     /\ "decode" \notin errlog[c])

\* The loop has returned on a zero-byte read with a request answered and the
\* start of another still in the accumulator.
C10_Witness ==
    /\ why[1] = "eof"
    /\ Len(reqs[1]) = 1
    /\ buf[1] = <<"a">>
    /\ wire[1] = Enc(rets[1][1])
    /\ errlog[1] = {}

\* A write of connection c has failed.
WriteHasFailed(c) == why[c] = "write_err" \/ TasksAt(c, "failed") # {}

\* C11: both modes, once a write on a connection has failed no further
\* request of that connection is decoded or handed to a task, and no byte
\* of a later response is written to it.
C11_WriteFailureAbandons ==
    [][\A c \in Conns :
         WriteHasFailed(c) =>
            /\ reqs'[c] = reqs[c]
            /\ Len(tasks'[c]) = Len(tasks[c])
            /\ wire'[c] = wire[c]]_vars

\* C15: pipelined mode, the i-th request decoded on a connection holds the
\* i-th ticket (tickets count from 0), taken when it was decoded: there is
\* one task and one ticket per decoded request, the tickets increase by one
\* in decode order, none is handed out twice and none ever changes, whatever
\* the tasks do.
C15_TicketsInDecodeOrder ==
    /\ [](mode = "pipe" =>
            \A c \in Conns :
              /\ Len(tasks[c]) = Len(reqs[c])
              /\ seqNext[c] = Len(tasks[c])
              /\ \A i \in 1..Len(tasks[c]) : tasks[c][i].ticket = i - 1)
    /\ [][\A c \in Conns : \A i \in 1..Len(tasks[c]) :
            /\ Len(tasks'[c]) >= Len(tasks[c])
            /\ tasks'[c][i].ticket = tasks[c][i].ticket]_vars

\* Three requests hold tickets 0, 1, 2 although their handlers completed
\* in the order R3, R2, R1.
C15_Witness ==
    /\ mode = "pipe"
    /\ Len(tasks[1]) = 3
    /\ [j \in 1..3 |-> tasks[1][j].ticket] = <<0, 1, 2>>
    /\ Len(calls[1]) = 3
    /\ [j \in 1..3 |-> calls[1][j].req] = <<3, 2, 1>>

\* C16: pipelined mode, a task is in or past the write section only if every
\* task holding a lower ticket has left it; a task parked at writer.lock()
\* holds its encoded response and has written nothing.
C16_AdmissionRule ==
    mode = "pipe" =>
      \A c \in Conns : \A i \in 1..Len(tasks[c]) :
        /\ tasks[c][i].pc \in {"write", "done", "failed"} =>
              \A j \in 1..Len(tasks[c]) :
                 tasks[c][j].ticket < tasks[c][i].ticket =>
                    tasks[c][j].pc \in {"done", "failed"}
        /\ tasks[c][i].pc = "lock" =>
              /\ tasks[c][i].rsp = Enc(rets[c][i])
              /\ tasks[c][i].off = 0
              /\ turn[c] <= tasks[c][i].ticket
        /\ tasks[c][i].pc = "call" => tasks[c][i].off = 0

\* The second task has its response encoded and is parked while the first
\* task's handler is still running; nothing is on the wire.
C16_Witness ==
    /\ mode = "pipe"
    /\ Len(tasks[1]) = 2
    /\ tasks[1][1].pc = "call"
    /\ tasks[1][2].pc = "lock"
    /\ tasks[1][2].rsp # <<>>
    /\ wire[1] = <<>>

\* C17: pipelined mode, the main loop's decode and read steps are enabled
\* whenever the loop is at them, whatever the spawned tasks are doing.
C17_MainLoopNeverWaits ==
    mode = "pipe" =>
      \A c \in Conns :
        /\ pc[c] = "decode" => ENABLED PipeDecode(c)
        /\ pc[c] = "read" => ENABLED PipeRead(c)

\* The third request has been decoded and its handler started while the
\* first handler is still running and the second task is parked.
C17_Witness ==
    /\ mode = "pipe"
    /\ pc[1] \in {"decode", "read"}
    /\ TasksAt(1, "call") = {1, 3}
    /\ TasksAt(1, "lock") = {2}

\* C20: sequential mode, the response buffer is empty whenever the loop is
\* before an encode, and during the write it holds the encoded bytes of the
\* current response and nothing else.
C20_RspClearedBetweenResponses ==
    mode = "seq" =>
      \A c \in Conns :
        /\ pc[c] \in {"decode", "read", "call"} =>
              /\ rsp[c] = <<>>
              /\ off[c] = 0
        /\ pc[c] = "write" =>
              /\ rsp[c] = Enc(rets[c][Len(reqs[c])])
              /\ off[c] < Len(rsp[c])
              /\ wire[c] = ConcatEnc(rets[c], Len(reqs[c]) - 1)
                               \o SubSeq(rsp[c], 1, off[c])

\* The second response, different from the first, is being written: the
\* buffer holds it alone.
C20_Witness ==
    /\ mode = "seq"
    /\ pc[1] = "write"
    /\ Len(reqs[1]) = 2
    /\ rets[1][1] # rets[1][2]
    /\ rsp[1] = Enc(rets[1][2])
    /\ 0 < off[1]

\* This step is a failure on connection c: its loop returns (decode error,
\* zero-byte read, read or write error), its handler fails, or the write
\* of one of its tasks fails.
FailsOn(c) ==
    \/ why'[c] # why[c]
    \/ /\ Len(calls'[c]) > Len(calls[c])
       /\ ~calls'[c][Len(calls'[c])].ok
    \/ \E i \in 1..Len(tasks[c]) :
          tasks[c][i].pc # "failed" /\ tasks'[c][i].pc = "failed"

\* Connection c has had a failure.
HasFailed(c) ==
    \/ why[c] # "open"
    \/ \E k \in 1..Len(calls[c]) : ~calls[c][k].ok
    \/ TasksAt(c, "failed") # {}

\* The loop of connection d and its tasks can take their next step.
Serving(d) ==
    /\ pc[d] \in {"decode", "read", "call", "write"} => ENABLED MainStep(d)
    /\ \A i \in 1..Len(tasks[d]) :
          \/ tasks[d][i].pc \in {"call", "write"}
          \/ tasks[d][i].pc = "lock" /\ tasks[d][i].ticket = turn[d]
          => ENABLED TaskStep(d, i)

\* The accept loop can take in the next arriving connection.
Accepting ==
    (\E c \in Arriving : pc[c] = "none") => ENABLED (\E c \in Conns : Accept(c))

\* C12: a step that is a failure on one connection leaves the listener and
\* the whole state of every other connection unchanged, and once a
\* connection has failed the others can still take their steps and the
\* running accept loop can still accept.
C12_BlastRadius ==
    /\ [][\A c \in Conns :
            FailsOn(c) =>
               /\ listener' = listener
               /\ accepts' = accepts
               /\ \A d \in Conns \ {c} : ConnState(d)' = ConnState(d)]_vars
    /\ [](\A c \in Conns :
            HasFailed(c) =>
               /\ \A d \in Conns \ {c} : Serving(d)
               /\ listener = "running" => Accepting)

\* The second connection ended on a decode error, the first one is open
\* with part of its response written, and the listener runs.
C12_Witness ==
    /\ why[2] = "decode_err"
    /\ pc[1] \notin {"none", "closed"}
    /\ wire[1] # <<>>
    /\ listener = "running"

\* C13: an iteration of the accept loop that fails (accept, or the clone of
\* pipelined mode) leaves the listener running and every connection slot as
\* it was, so there are exactly as many connection loops as successful
\* iterations, and a running listener can accept the next connection.
C13_AcceptErrorsSkipped ==
    /\ [][accepts' # accepts /\ accepts'[Len(accepts')] # "ok" =>
            /\ listener = "running"
            /\ listener' = listener
            /\ \A d \in Conns : ConnState(d)' = ConnState(d)]_vars
    /\ [](Cardinality({c \in Conns : pc[c] # "none"})
            = Cardinality({k \in 1..Len(accepts) : accepts[k] = "ok"}))
    /\ [](listener = "running" => Accepting)

\* The first iteration failed, the second accepted a connection, and that
\* connection was served until its peer closed.
C13_Witness ==
    /\ Len(accepts) = 2
    /\ accepts[1] # "ok"
    /\ accepts[2] = "ok"
    /\ why[1] = "eof"
    /\ wire[1] # <<>>

\* C14: the step that cancels the listener changes nothing of any
\* connection; after it no connection is accepted, and every loop and task
\* spawned before can still take its next step.
C14_CancelKeepsConnections ==
    /\ [][listener' # listener =>
            /\ listener' = "cancelled"
            /\ accepts' = accepts
            /\ \A d \in Conns : ConnState(d)' = ConnState(d)]_vars
    /\ [][listener = "cancelled" =>
            /\ listener' = "cancelled"
            /\ accepts' = accepts
            /\ \A c \in Conns : pc[c] = "none" => pc'[c] = "none"]_vars
    /\ [](listener = "cancelled" => \A d \in Conns : Serving(d))

\* The listener is cancelled, the second connection was never accepted, and
\* the first connection's response is complete on the wire although its
\* loop has not returned.
C14_Witness ==
    /\ listener = "cancelled"
    /\ accepts = <<"ok">>
    /\ pc[2] = "none"
    /\ pc[1] \in {"decode", "read"}
    /\ Len(rets[1]) = 1
    /\ rets[1][1] # NoRsp
    /\ wire[1] = Enc(rets[1][1])

\* C18: pipelined mode, fair scheduling of the tasks: the step in which a
\* task's write fails passes the turn to the next ticket, and once a task
\* has failed its write every task spawned after it on the connection
\* eventually comes to the end of its own write attempt (again and again
\* there is a moment when all of them have, and a task that has ended stays
\* ended); a task never ends before the tasks holding lower tickets.
C18_ProgressAfterFailedWrite ==
    /\ [][\A c \in Conns : \A i \in 1..Len(tasks[c]) :
            tasks[c][i].pc = "write" /\ tasks'[c][i].pc = "failed" =>
               turn'[c] = tasks[c][i].ticket + 1]_vars
    /\ []<>(\A c \in Conns : \A j \in 1..Len(tasks[c]) :
              (\E i \in 1..(j - 1) : tasks[c][i].pc = "failed") => TaskFinished(c, j))
    /\ [](\A c \in Conns : \A j \in 1..Len(tasks[c]) :
            tasks[c][j].pc \in {"write", "done", "failed"} =>
               \A i \in 1..(j - 1) : TaskFinished(c, i))

\* The first task's write failed before it wrote a byte and the second
\* task, admitted after it, wrote its whole response.
C18_Witness ==
    /\ mode = "pipe"
    /\ TasksAt(1, "failed") = {1}
    /\ TasksAt(1, "done") = {2}
    /\ wire[1] = Enc(rets[1][2])

\* The low-water mark of the mode's loop.
LowWater == IF mode = "seq" THEN SeqLowWater ELSE PipeLowWater

\* C19: both modes, whenever the loop is in its read the accumulator has
\* at least the low-water mark of room; the loop gets there without losing
\* capacity, the read leaves the capacity alone, and the loop returns on a
\* zero-byte read only when the peer has nothing left to send.
C19_ReadHasRoom ==
    /\ [](\A c \in Conns : pc[c] = "read" => remaining_mut(c) >= LowWater)
    /\ [][\A c \in Conns :
            /\ pc[c] # "read" /\ pc'[c] = "read" => cap'[c] >= cap[c]
            /\ pc[c] = "read" /\ pc'[c] # "read" =>
                  /\ cap'[c] = cap[c]
                  /\ why'[c] = "eof" => input[c] = <<>>]_vars

\* Sequential mode: a request longer than the initial capacity is being
\* accumulated, the buffer has grown and the connection is open.
C19_Witness ==
    /\ mode = "seq"
    /\ Len(buf[1]) > SeqBufCap
    /\ cap[1] = SeqBufCap + SeqReserve
    /\ decode(buf[1]).kind = "None"
    /\ why[1] = "open"

====
